---- MODULE Spec2Model ----
(***************************************************************************)
(* The segmented, hash-indexed key-value store of package datastore (Db,   *)
(* Segment: Open, recover, createSegment, Get, Put, Size, MergeSegments,   *)
(* Close) over a directory of append-only segment files.                   *)
(*                                                                         *)
(* A file is a sequence of byte cells.  The directory maps a segment       *)
(* ordinal (the decimal suffix of "segment-<n>") to an inode, and an       *)
(* inode to its content, so that an open handle outlives os.Remove and two *)
(* handles opened on one name share one content.  Segment objects live in  *)
(* a heap because the code shares and mutates them through pointers.       *)
(* Every handler is a sequence of steps of a thread (pc, loc), one step    *)
(* per statement that touches shared state.                                *)
(*                                                                         *)
(* The second program is the load balancer of cmd/lb: the registry of      *)
(* backends (servers), one health prober per backend, and the request      *)
(* handlers that select the alive backend with the least traffic and       *)
(* forward to it.  The backends themselves are the environment.            *)
(***************************************************************************)
EXTENDS Integers, Sequences, FiniteSets, TLC

VARIABLES
  dir,            \* on disk: segment ordinal -> inode (the directory entries)
  files,          \* on disk: inode -> content, a sequence of byte cells
  heap,           \* Segment objects: id -> [filePath, ino, closed, offset, index]
  segments,       \* Db.segments: sequence of Segment ids, oldest first
  activeSegment,  \* Db.activeSegment: a Segment id, 0 for nil
  segmentSize,    \* Db.segmentSize
  dbState,        \* "closed" (no Db object) or "open"
  pc,             \* per thread: the statement it is at
  loc,            \* per thread: the locals of the running handler
  ret,            \* per thread: the last handler that returned and its result
  hist,           \* history (not program state): counters and snapshots
  servers,        \* balancer: the registry, a sequence of ServerInfo
  backend,        \* environment: what each backend answers at the moment
  hpc,            \* per prober: the statement of health() it is at
  hloc,           \* per prober: the locals of health()
  rpc,            \* per request: the statement of the handler it is at
  rloc,           \* per request: the locals of the handler and of forward
  rw,             \* per request: the http.ResponseWriter of the request
  traceEnabled,   \* the flag -trace
  lbhist          \* history (not program state) of the balancer

dbvars == <<dir, files, heap, segments, activeSegment, segmentSize, dbState,
            pc, loc, ret, hist>>

lbvars == <<servers, backend, hpc, hloc, rpc, rloc, rw, traceEnabled, lbhist>>

vars == <<dir, files, heap, segments, activeSegment, segmentSize, dbState,
          pc, loc, ret, hist,
          servers, backend, hpc, hloc, rpc, rloc, rw, traceEnabled, lbhist>>

----------------------------------------------------------------------------
(* Bounds of the model. *)

MaxPuts == 3        \* Put calls in one behaviour of Spec
MaxMerges == 2      \* MergeSegments calls in one behaviour of Spec
MaxRestarts == 1    \* Close (or crash) and Open again, in one behaviour
MaxFaults == 1      \* injected I/O failures in one behaviour of SpecFault
MaxFaultPuts == 2   \* Put calls in one behaviour of SpecFault
MaxFaultMerges == 1 \* MergeSegments calls in one behaviour of SpecFault
MaxCrashPuts == 2   \* Put calls in one behaviour of SpecCrash
MaxCrashMerges == 1 \* MergeSegments calls in one behaviour of SpecCrash
MaxLongPuts == 11   \* Put calls in one behaviour of SpecLong
MaxConcPuts == 2    \* Put calls in one behaviour of SpecConc
MaxConcMerges == 1  \* MergeSegments calls in one behaviour of SpecConc
MaxGetPuts == 2     \* Put calls in one behaviour of SpecGet
MaxGets == 2        \* Get calls in one behaviour of SpecGet
MaxRacePuts == 2    \* Put calls in one behaviour of SpecGetMerge
MaxRaceMerges == 1  \* MergeSegments calls in one behaviour of SpecGetMerge
MaxRaceGets == 1    \* Get calls in one behaviour of SpecGetMerge
MaxSelectCalls == 2 \* requests in one behaviour of SpecSelect
MaxCopyFaults == 1  \* failures of io.Copy in one behaviour
MaxCalls == 2       \* requests in one behaviour of SpecLb
MaxProbes == 2      \* health probes in one behaviour of SpecLb
MaxGateCalls == 2   \* requests in one behaviour of SpecProbe
MaxGateProbes == 2  \* health probes in one behaviour of SpecProbe
MaxFlips == 1       \* changes of a backend's behaviour in one behaviour
MaxFairCalls == 6   \* requests in one behaviour of SpecFair
MaxFairProbes == 2  \* health probes in one behaviour of SpecFair
MaxRecoverCalls == 1  \* requests in one behaviour of SpecRecover
MaxRecoverFlips == 1  \* changes of a backend's behaviour in SpecRecover

Threads == {1, 2}
Keys == {<<97>>, <<98, 98>>}       \* "a" and "bb"
SegmentSizes == {1, 12}            \* every Put rolls over / every second one
LongKeys == {<<97>>}               \* the key written in SpecLong
PartialWrites == {0, 1, 3}            \* bytes that reach the file when Write fails
Traffics == {0, 5}                 \* TrafficBytes of a registry that is given
Bodies == {0, 5}                   \* body sizes of a backend's responses
PartialBodies == {0, 3}            \* body bytes copied when io.Copy fails
CopyFailures == {"backend", "client"}  \* the side on which io.Copy fails

----------------------------------------------------------------------------
(* Generic helpers. *)

Range(s) == {s[i] : i \in DOMAIN s}

Fresh(used) == CHOOSE n \in 1..(Cardinality(used) + 1) :
                 n \notin used /\ \A m \in 1..(n - 1) : m \in used

Restrict(f, S) == [x \in (DOMAIN f) \cap S |-> f[x]]

Extend(f, x, v) == [y \in (DOMAIN f) \cup {x} |-> IF y = x THEN v ELSE f[y]]

Slice(s, from, to) == [i \in 1..(to - from + 1) |-> s[from + i - 1]]

----------------------------------------------------------------------------
(* Record codec (entry.Encode, entry.DecodeFromReader).                    *)
(* A record is self-framing: total length, type tag, key length, key,      *)
(* value length, value.                                                    *)

TagString == 1
HeaderLen == 4      \* the four one-cell fields: total, tag, key length, value length

Encode(key, value) ==
  <<HeaderLen + Len(key) + Len(value), TagString, Len(key)>> \o key
     \o <<Len(value)>> \o value

\* Decode one record of file f at byte offset off.
\*   st = "end"        the stream ends cleanly at off (io.EOF)
\*   st = "malformed"  truncation, length mismatch or unknown tag
\*   st = "ok"         key, value and the number n of bytes consumed
DecodeFromReader(f, off) ==
  LET bad == [st |-> "malformed", key |-> <<>>, value |-> <<>>, n |-> 0]
  IN
  IF off >= Len(f) THEN [st |-> "end", key |-> <<>>, value |-> <<>>, n |-> 0]
  ELSE IF off + 3 > Len(f) THEN bad
  ELSE
    LET total == f[off + 1]
        tag   == f[off + 2]
        kl    == f[off + 3]
    IN
    IF total < HeaderLen \/ off + total > Len(f) THEN bad
    ELSE IF HeaderLen + kl > total THEN bad
    ELSE
      LET vl == f[off + 3 + kl + 1]
      IN
      IF HeaderLen + kl + vl # total \/ tag # TagString THEN bad
      ELSE [st |-> "ok",
            key |-> Slice(f, off + 4, off + 3 + kl),
            value |-> Slice(f, off + 3 + kl + 2, off + total),
            n |-> total]

----------------------------------------------------------------------------
(* The directory: names and their order.                                   *)

\* fmt.Sprintf("%d", n): the decimal digits of n, most significant first.
RECURSIVE Digits(_)
Digits(n) == IF n < 10 THEN <<n>> ELSE Digits(n \div 10) \o <<n % 10>>

\* Byte-wise order of two digit strings, as strings are compared in Go.
RECURSIVE StrLess(_, _)
StrLess(a, b) ==
  IF a = <<>> THEN b # <<>>
  ELSE IF b = <<>> THEN FALSE
  ELSE IF Head(a) # Head(b) THEN Head(a) < Head(b)
  ELSE StrLess(Tail(a), Tail(b))

\* os.ReadDir: the entries of the directory sorted by file name.  All names
\* share the prefix "segment-", so the order is that of the digit strings.
RECURSIVE ReadDir(_)
ReadDir(names) ==
  IF names = {} THEN <<>>
  ELSE LET first == CHOOSE n \in names :
                      \A m \in names \ {n} : StrLess(Digits(n), Digits(m))
       IN <<first>> \o ReadDir(names \ {first})

----------------------------------------------------------------------------
(* Files and handles.                                                      *)

\* A Segment object.  file is the open handle: the inode it refers to, its
\* position, whether it was opened with O_APPEND, whether it was closed.
NewSegment(path, ino, append, pos, offset, index) ==
  [filePath |-> path, ino |-> ino, closed |-> FALSE, append |-> append,
   pos |-> pos, offset |-> offset, index |-> index]

\* file.Write(b) of which the first n bytes reach the file: at the end of the
\* file for an O_APPEND handle, at the handle's position otherwise.
WriteBytes(content, seg, b, n) ==
  LET at == IF seg.append THEN Len(content) ELSE seg.pos
      written == SubSeq(b, 1, n)
  IN SubSeq(content, 1, at) \o written
       \o SubSeq(content, at + n + 1, Len(content))

WritePos(content, seg, n) ==
  IF seg.append THEN Len(content) + n ELSE seg.pos + n

\* The Segment ids some variable or local still refers to.
LiveSegments(sg, act, l) ==
  (Range(sg) \cup {act}
     \cup UNION {{l[t].newSegment, l[t].mergedSegment} \cup Range(l[t].snap)
                   : t \in Threads}) \ {0}

\* The next state of disk and memory.  Segment objects nothing refers to are
\* collected, and so are inodes with no name and no open handle.
Commit(d, f, h, sg, act, l) ==
  LET live == LiveSegments(sg, act, l)
      hh == Restrict(h, live)
      open == {hh[i].ino : i \in {j \in DOMAIN hh : ~hh[j].closed}}
  IN /\ dir' = d
     /\ files' = Restrict(f, Range(d) \cup open)
     /\ heap' = hh
     /\ segments' = sg
     /\ activeSegment' = act
     /\ loc' = l

----------------------------------------------------------------------------
(* Db.createSegment: the name is "segment-<len(db.segments)>"; the file is *)
(* opened with O_APPEND|O_CREATE|O_RDWR, so an existing file of that name  *)
(* is opened as it is.                                                     *)

SegmentName(sg) == Len(sg)

createSegment(d, f, h, sg) ==
  LET name == SegmentName(sg)
      exists == name \in DOMAIN d
      ino == IF exists THEN d[name] ELSE Fresh(DOMAIN f)
      id == Fresh(DOMAIN h)
  IN [dir |-> Extend(d, name, ino),
      files |-> IF exists THEN f ELSE Extend(f, ino, <<>>),
      heap |-> Extend(h, id, NewSegment(name, ino, TRUE, 0, 0, <<>>)),
      id |-> id]

----------------------------------------------------------------------------
(* Db.Get: newest segment first; the first index that holds the key        *)
(* decides; the record is read through a fresh os.Open of filePath.        *)

NotFound == [st |-> "notfound", value |-> <<>>]
IOError == [st |-> "error", value |-> <<>>]

\* The segments of sg in the order Get visits them.
ScanOrder(sg) == [i \in 1..Len(sg) |-> sg[Len(sg) + 1 - i]]

RECURSIVE GetScan(_, _, _, _, _)
GetScan(d, f, h, order, key) ==
  IF order = <<>> THEN NotFound
  ELSE LET segment == h[Head(order)]
       IN IF key \in DOMAIN segment.index
          THEN IF segment.filePath \notin DOMAIN d THEN IOError
               ELSE LET record == DecodeFromReader(f[d[segment.filePath]],
                                                   segment.index[key])
                    IN IF record.st = "ok"
                       THEN [st |-> "ok", value |-> record.value]
                       ELSE IOError
          ELSE GetScan(d, f, h, Tail(order), key)

GetIn(d, f, h, sg, key) == GetScan(d, f, h, ScanOrder(sg), key)

Get(key) == GetIn(dir, files, heap, segments, key)

\* What every key reads as.
GetAll == [k \in Keys |-> Get(k)]

----------------------------------------------------------------------------
(* Db.recover and Open.                                                    *)

\* The decode loop of recover over one file: the index and the offset, or
\* ok = FALSE when a record is malformed.
RECURSIVE RecoverFile(_, _, _)
RecoverFile(content, offset, index) ==
  LET rec == DecodeFromReader(content, offset)
  IN IF rec.st = "end" THEN [ok |-> TRUE, offset |-> offset, index |-> index]
     ELSE IF rec.st = "malformed"
          THEN [ok |-> FALSE, offset |-> offset, index |-> index]
     ELSE RecoverFile(content, offset + rec.n, Extend(index, rec.key, offset))

\* recover: one Segment per directory entry, in the order of os.ReadDir.
RECURSIVE recover(_, _, _, _, _)
recover(d, f, names, h, sg) ==
  IF names = <<>> THEN [ok |-> TRUE, heap |-> h, segments |-> sg]
  ELSE LET path == Head(names)
           r == RecoverFile(f[d[path]], 0, <<>>)
           id == Fresh(DOMAIN h)
       IN IF ~r.ok THEN [ok |-> FALSE, heap |-> h, segments |-> sg]
          ELSE recover(d, f, Tail(names),
                       Extend(h, id, NewSegment(path, d[path], FALSE,
                                                Len(f[d[path]]), r.offset,
                                                r.index)),
                       Append(sg, id))

----------------------------------------------------------------------------
(* The balancer: registry, backends, response writer.                      *)

StatusOK == 200
StatusServiceUnavailable == 503

\* serversPoolStrings: the registry main() builds has three backends.  A
\* backend's URL is its place in the pool.
serversPoolStrings == <<1, 2, 3>>

ServerInfo(url, alive, traffic) ==
  [URL |-> url, Alive |-> alive, TrafficBytes |-> traffic]

\* main(): every backend of the pool, alive, with no traffic.
MainServers ==
  [i \in DOMAIN serversPoolStrings |->
     ServerInfo(serversPoolStrings[i], TRUE, 0)]

\* IsAlive that does not read the flag.
IsAliveAlways(s) == TRUE

IsAlive(s) == s.Alive

GetTraffic(s) == s.TrafficBytes

GetURL(s) == s.URL

SetAlive(sv, i, alive) == [sv EXCEPT ![i].Alive = alive]

\* AddTraffic with = for +=.
AddTrafficSet(sv, i, bytes) == [sv EXCEPT ![i].TrafficBytes = bytes]

AddTraffic(sv, i, bytes) == [sv EXCEPT ![i].TrafficBytes = @ + bytes]

\* What a backend does at the moment: the status of its answer to
\* GET /health (0: no answer, a network error or a timeout), whether a
\* forwarded request gets a response at all, and the size of the body.
Backend(health, up, body) == [health |-> health, up |-> up, body |-> body]

\* The http.ResponseWriter of a request: the status written (0: none yet),
\* the header map (lb-from 0 and the counters -1 when not set), the body
\* bytes written.
Rw0 == [code |-> 0, from |-> 0, before |-> -1, after |-> -1, body |-> 0]

\* The locals of the handler, of selectServerLeastTraffic and of forward.
RLoc0 == [i |-> 0, availableServers |-> <<>>, selectedServer |-> 0,
          minTraffic |-> -1, dst |-> 0, StatusCode |-> 0, Body |-> 0,
          bytesWritten |-> 0]

HLoc0 == [currentStatus |-> FALSE, answer |-> 0]

\* Per request: the registry when it was called, the backends it contacted,
\* the counter right before and right after its AddTraffic, how it ended.
\* Per request: the registry when it was called, for each backend the
\* outcome of its last probe when the request read its alive flag, the
\* backends contacted, the selection (-1 none yet, 0 nil), where forward
\* failed, the counter right before and right after its AddTraffic.
Req0 == [pre |-> <<>>, read |-> <<>>, contacted |-> {}, selected |-> -1,
         gate |-> "none", failed |-> "", was |-> -1, became |-> -1,
         done |-> FALSE]

\* Per backend: the outcome of its last completed probe, the status that
\* probe received, the alive flag it found and the one it left, the body
\* bytes of the responses streamed to the end, the requests served.
Probe0 == [outcome |-> "none", answer |-> 0, was |-> TRUE, alive |-> TRUE]

LbHist(sv) ==
  [ncall |-> 0, nprobe |-> 0, nflip |-> 0, nfault |-> 0,
   first |-> sv,                                \* the registry at the start
   probe |-> [i \in DOMAIN sv |-> Probe0],
   served |-> [i \in DOMAIN sv |-> 0],
   count |-> [i \in DOMAIN sv |-> 0],
   req |-> [r \in Threads |-> Req0]]

\* The balancer as main() leaves it, in front of healthy backends.
LbInit ==
  /\ servers = MainServers
  /\ backend = [i \in DOMAIN MainServers |-> Backend(StatusOK, TRUE, 0)]
  /\ hpc = [i \in DOMAIN MainServers |-> "idle"]
  /\ hloc = [i \in DOMAIN MainServers |-> HLoc0]
  /\ rpc = [r \in Threads |-> "idle"]
  /\ rloc = [r \in Threads |-> RLoc0]
  /\ rw = [r \in Threads |-> Rw0]
  /\ traceEnabled = FALSE
  /\ lbhist = LbHist(MainServers)

----------------------------------------------------------------------------
(* Threads.                                                                *)

Loc0 == [key |-> <<>>, value |-> <<>>, n |-> 0, newSegment |-> 0,
         mergedSegment |-> 0, snap |-> <<>>, si |-> 0, todo |-> {},
         mergedIndex |-> <<>>,
         i |-> 0, filePath |-> 0, offset |-> 0,   \* the locals of Get
         before |-> [st |-> "none", value |-> <<>>],  \* Get(key) at the call
         puts |-> 0]                              \* Puts returned at the call


Ret0 == [op |-> "none", err |-> FALSE, at |-> "", key |-> <<>>, value |-> <<>>]

Hist0 == [nput |-> 0, nfault |-> 0, nmerge |-> 0, nrestart |-> 0, nget |-> 0,
          last |-> <<>>,        \* key -> value of its last Put that returned nil
          life |-> <<>>,        \* the same, since the last Open
          put |-> [k \in Keys |-> {}],   \* key -> the values Put was called with
          lifeMerges |-> 0,     \* MergeSegments calls since the last Open
          pre |-> <<>>,         \* the state when the last handler was called
          prev |-> Ret0,        \* what the handler before the last one returned
          failed |-> 0,         \* the segment that was active when a Put failed
          crashAt |-> "none"]   \* where the last crash stopped the process

Idle == \A t \in Threads : pc[t] = "idle"

DbInit ==
  /\ dir = <<>>
  /\ files = <<>>
  /\ heap = <<>>
  /\ segments = <<>>
  /\ activeSegment = 0
  /\ segmentSize \in SegmentSizes
  /\ dbState = "closed"
  /\ pc = [t \in Threads |-> "idle"]
  /\ loc = [t \in Threads |-> Loc0]
  /\ ret = [t \in Threads |-> Ret0]
  /\ hist = Hist0

Init == DbInit /\ LbInit

\* The state a handler is called in, kept to compare with what it leaves.
Snapshot == [get |-> GetAll, dir |-> dir, files |-> files, heap |-> heap,
             segments |-> segments, activeSegment |-> activeSegment]

\* Open(dir, segmentSize): recover, then a first segment if there is none.
Open(t) ==
  /\ dbState = "closed"
  /\ pc[t] = "idle"
  /\ LET r == recover(dir, files, ReadDir(DOMAIN dir), <<>>, <<>>)
     IN IF ~r.ok
        THEN /\ ret' = [ret EXCEPT ![t] = [Ret0 EXCEPT !.op = "Open", !.err = TRUE]]
             /\ UNCHANGED <<dir, files, heap, segments, activeSegment, loc,
                            dbState>>
        ELSE /\ ret' = [ret EXCEPT ![t] = [Ret0 EXCEPT !.op = "Open"]]
             /\ dbState' = "open"
             /\ IF Len(r.segments) = 0
                THEN LET c == createSegment(dir, files, r.heap, r.segments)
                     IN Commit(c.dir, c.files, c.heap, <<c.id>>, c.id, loc)
                ELSE Commit(dir, files, r.heap, r.segments,
                            r.segments[Len(r.segments)], loc)
  /\ hist' = [hist EXCEPT !.life = <<>>, !.lifeMerges = 0, !.failed = 0,
                          !.prev = ret[t]]
  /\ UNCHANGED <<segmentSize, pc>>
  /\ UNCHANGED lbvars

\* Db.Close: every segment file is closed.  The Db is not used afterwards.
Close(t) ==
  /\ dbState = "open"
  /\ Idle
  /\ dbState' = "closed"
  /\ Commit(dir, files, <<>>, <<>>, 0, loc)
  /\ ret' = [ret EXCEPT ![t] = [Ret0 EXCEPT !.op = "Close"]]
  /\ hist' = [hist EXCEPT !.nrestart = @ + 1, !.pre = Snapshot,
                          !.prev = ret[t]]
  /\ UNCHANGED <<segmentSize, pc>>
  /\ UNCHANGED lbvars

\* Thread t returns r; its locals are dead.
Return(t, r) ==
  /\ pc' = [pc EXCEPT ![t] = "idle"]
  /\ ret' = [ret EXCEPT ![t] = r]
  /\ UNCHANGED lbvars

Reset(t) == [loc EXCEPT ![t] = Loc0]

Goto(t, label) ==
  /\ pc' = [pc EXCEPT ![t] = label]
  /\ UNCHANGED ret
  /\ UNCHANGED lbvars

----------------------------------------------------------------------------
(* Db.Put(key, value).                                                     *)

PutRet(t, failed) ==
  [op |-> "Put", err |-> failed, at |-> IF failed THEN pc[t] ELSE "",
   key |-> loc[t].key, value |-> loc[t].value]

\* The value of the next Put: every Put writes a value not written before.
NextValue == <<hist.nput + 1>>

\* db.activeSegment.file.Write(encoded) writes all of the record.
PutWrite(t, key) ==
  /\ dbState = "open"
  /\ pc[t] = "idle"
  /\ ~heap[activeSegment].closed
  /\ LET seg == heap[activeSegment]
         encoded == Encode(key, NextValue)
         n == Len(encoded)
     IN Commit(dir,
               [files EXCEPT ![seg.ino] = WriteBytes(@, seg, encoded, n)],
               [heap EXCEPT ![activeSegment].pos =
                                WritePos(files[seg.ino], seg, n)],
               segments, activeSegment,
               [loc EXCEPT ![t] = [Loc0 EXCEPT !.key = key,
                                              !.value = NextValue, !.n = n]])
  /\ Goto(t, "put_index")
  /\ hist' = [hist EXCEPT !.nput = @ + 1, !.pre = Snapshot, !.prev = ret[t],
                          !.put[key] = @ \cup {NextValue}]
  /\ UNCHANGED <<segmentSize, dbState>>

\* Write fails: only the first n bytes of the record reach the file (none
\* when the handle is closed), and Put returns the error.
PutWriteFail(t, key, n) ==
  /\ dbState = "open"
  /\ pc[t] = "idle"
  /\ \/ heap[activeSegment].closed /\ n = 0
     \/ ~heap[activeSegment].closed /\ hist.nfault < MaxFaults
  /\ n < Len(Encode(key, NextValue))
  /\ LET seg == heap[activeSegment]
         encoded == Encode(key, NextValue)
     IN /\ Commit(dir,
                  IF seg.closed THEN files
                  ELSE [files EXCEPT ![seg.ino] = WriteBytes(@, seg, encoded, n)],
                  IF seg.closed THEN heap
                  ELSE [heap EXCEPT ![activeSegment].pos =
                                      WritePos(files[seg.ino], seg, n)],
                  segments, activeSegment, loc)
        /\ pc' = pc
        /\ UNCHANGED lbvars
        /\ ret' = [ret EXCEPT ![t] = [op |-> "Put", err |-> TRUE,
                                      at |-> "put_write", key |-> key,
                                      value |-> NextValue]]
        /\ hist' = [hist EXCEPT !.nput = @ + 1, !.pre = Snapshot,
                                !.prev = ret[t], !.failed = activeSegment,
                                !.nfault = IF seg.closed THEN @ ELSE @ + 1]
  /\ UNCHANGED <<segmentSize, dbState>>

\* db.activeSegment.index[key] = db.activeSegment.offset
PutIndex(t) ==
  /\ pc[t] = "put_index"
  /\ Commit(dir, files,
            [heap EXCEPT ![activeSegment].index =
                           Extend(@, loc[t].key, heap[activeSegment].offset)],
            segments, activeSegment, loc)
  /\ Goto(t, "put_offset")
  /\ UNCHANGED <<segmentSize, dbState, hist>>

\* db.activeSegment.offset += int64(n)
PutOffset(t) ==
  /\ pc[t] = "put_offset"
  /\ Commit(dir, files,
            [heap EXCEPT ![activeSegment].offset = @ + loc[t].n],
            segments, activeSegment, loc)
  /\ Goto(t, "put_size")
  /\ UNCHANGED <<segmentSize, dbState, hist>>

\* Db.Size: the length of the active segment's file, by Stat on its handle.
Size == Len(files[heap[activeSegment].ino])

PutDone(t, failed) ==
  /\ Return(t, PutRet(t, failed))
  /\ Commit(dir, files, heap, segments, activeSegment, Reset(t))
  /\ UNCHANGED <<segmentSize, dbState>>

Written(h, key, value) ==
  [h EXCEPT !.last = Extend(@, key, value), !.life = Extend(@, key, value)]

\* size, err := db.Size(); if size >= db.segmentSize ... else return nil
PutSize(t) ==
  /\ pc[t] = "put_size"
  /\ ~heap[activeSegment].closed
  /\ IF Size >= segmentSize
     THEN /\ Goto(t, "put_create")
          /\ UNCHANGED <<dir, files, heap, segments, activeSegment, loc,
                         segmentSize, dbState, hist>>
     ELSE /\ PutDone(t, FALSE)
          /\ hist' = Written(hist, loc[t].key, loc[t].value)

\* Stat fails (always on a closed handle): Put returns the error.
PutSizeFail(t) ==
  /\ pc[t] = "put_size"
  /\ heap[activeSegment].closed \/ hist.nfault < MaxFaults
  /\ PutDone(t, TRUE)
  /\ hist' = [hist EXCEPT !.failed = activeSegment,
                          !.nfault = IF heap[activeSegment].closed
                                     THEN @ ELSE @ + 1]

\* newSegment, err := db.createSegment()
PutCreate(t) ==
  /\ pc[t] = "put_create"
  /\ LET c == createSegment(dir, files, heap, segments)
     IN Commit(c.dir, c.files, c.heap, segments, activeSegment,
               [loc EXCEPT ![t].newSegment = c.id])
  /\ Goto(t, "put_append")
  /\ UNCHANGED <<segmentSize, dbState, hist>>

\* os.OpenFile fails in createSegment: Put returns the error.
PutCreateFail(t) ==
  /\ pc[t] = "put_create"
  /\ hist.nfault < MaxFaults
  /\ PutDone(t, TRUE)
  /\ hist' = [hist EXCEPT !.nfault = @ + 1]

\* db.segments = append(db.segments, newSegment)
PutAppend(t) ==
  /\ pc[t] = "put_append"
  /\ Commit(dir, files, heap, Append(segments, loc[t].newSegment),
            activeSegment, loc)
  /\ Goto(t, "put_active")
  /\ UNCHANGED <<segmentSize, dbState, hist>>

\* db.activeSegment = newSegment; return nil
PutActive(t) ==
  /\ pc[t] = "put_active"
  /\ Return(t, PutRet(t, FALSE))
  /\ Commit(dir, files, heap, segments, loc[t].newSegment, Reset(t))
  /\ hist' = Written(hist, loc[t].key, loc[t].value)
  /\ UNCHANGED <<segmentSize, dbState>>

----------------------------------------------------------------------------
(* Db.MergeSegments.                                                       *)

MergeRet(failed) == [Ret0 EXCEPT !.op = "Merge", !.err = failed]

MergeDone(t, failed) ==
  /\ Return(t, MergeRet(failed))
  /\ UNCHANGED <<segmentSize, dbState>>

\* The keys of a segment's index, as a range over the map will visit them.
IndexKeys(h, sg, i) == IF i <= Len(sg) THEN DOMAIN h[sg[i]].index ELSE {}

\* mergedSegment, err := db.createSegment(); mergedIndex := make(hashIndex)
MergeCreate(t) ==
  /\ dbState = "open"
  /\ pc[t] = "idle"
  /\ LET c == createSegment(dir, files, heap, segments)
     IN Commit(c.dir, c.files, c.heap, segments, activeSegment,
               [loc EXCEPT ![t] = [Loc0 EXCEPT !.mergedSegment = c.id]])
  /\ Goto(t, "merge_range")
  /\ hist' = [hist EXCEPT !.nmerge = @ + 1, !.lifeMerges = @ + 1,
                          !.pre = Snapshot, !.prev = ret[t]]
  /\ UNCHANGED <<segmentSize, dbState>>

\* os.OpenFile fails in createSegment: MergeSegments returns the error.
MergeCreateFail(t) ==
  /\ dbState = "open"
  /\ pc[t] = "idle"
  /\ hist.nfault < MaxFaults
  /\ pc' = pc
  /\ UNCHANGED lbvars
  /\ ret' = [ret EXCEPT ![t] = MergeRet(TRUE)]
  /\ hist' = [hist EXCEPT !.nmerge = @ + 1, !.lifeMerges = @ + 1,
                          !.nfault = @ + 1, !.pre = Snapshot, !.prev = ret[t]]
  /\ UNCHANGED <<dir, files, heap, segments, activeSegment, loc, segmentSize,
                 dbState>>

\* for _, segment := range db.segments: the outer loop ranges over the
\* sequence as it is now and enters its first segment.
MergeRange(t) ==
  /\ pc[t] = "merge_range"
  /\ Commit(dir, files, heap, segments, activeSegment,
            [loc EXCEPT ![t].snap = segments, ![t].si = 1,
                        ![t].todo = IndexKeys(heap, segments, 1)])
  /\ Goto(t, "merge_copy")
  /\ UNCHANGED <<segmentSize, dbState, hist>>

\* The keys of the current segment that the inner loop does not skip.
MergeTodo(t) == loc[t].todo \ DOMAIN loc[t].mergedIndex

\* The segment whose index the inner loop ranges over.
MergeFrom(t) == heap[loc[t].snap[loc[t].si]]

\* What the body of the inner loop reads for key: ok = FALSE when os.Open or
\* DecodeFromReader fails.
MergeRead(t, key) ==
  LET segment == MergeFrom(t)
  IN IF segment.filePath \notin DOMAIN dir
     THEN [st |-> "error", key |-> <<>>, value |-> <<>>, n |-> 0]
     ELSE DecodeFromReader(files[dir[segment.filePath]], segment.index[key])

\* One iteration of the inner loop that copies a record: any key of the
\* index may come next (the order of a range over a map is not specified).
MergeCopy(t, key) ==
  /\ pc[t] = "merge_copy"
  /\ key \in MergeTodo(t)
  /\ MergeRead(t, key).st = "ok"
  /\ ~heap[loc[t].mergedSegment].closed
  /\ LET record == MergeRead(t, key)
         m == loc[t].mergedSegment
         out == heap[m]
         encoded == Encode(record.key, record.value)
         n == Len(encoded)
     IN Commit(dir,
               [files EXCEPT ![out.ino] = WriteBytes(@, out, encoded, n)],
               [heap EXCEPT ![m].pos = WritePos(files[out.ino], out, n),
                            ![m].offset = @ + n],
               segments, activeSegment,
               [loc EXCEPT ![t].mergedIndex = Extend(@, key, out.offset),
                           ![t].todo = @ \ {key}])
  /\ Goto(t, "merge_copy")
  /\ UNCHANGED <<segmentSize, dbState, hist>>

\* The read of the record fails: MergeSegments returns the error.
MergeReadFail(t, key) ==
  /\ pc[t] = "merge_copy"
  /\ key \in MergeTodo(t)
  /\ MergeRead(t, key).st # "ok"
  /\ MergeDone(t, TRUE)
  /\ Commit(dir, files, heap, segments, activeSegment, Reset(t))
  /\ UNCHANGED hist

\* mergedSegment.file.Write fails after n bytes: MergeSegments returns the
\* error.
MergeWriteFail(t, key, n) ==
  /\ pc[t] = "merge_copy"
  /\ key \in MergeTodo(t)
  /\ MergeRead(t, key).st = "ok"
  /\ hist.nfault < MaxFaults
  /\ LET record == MergeRead(t, key)
         m == loc[t].mergedSegment
         out == heap[m]
         encoded == Encode(record.key, record.value)
     IN /\ n < Len(encoded)
        /\ Commit(dir,
                  [files EXCEPT ![out.ino] = WriteBytes(@, out, encoded, n)],
                  heap, segments, activeSegment, Reset(t))
  /\ MergeDone(t, TRUE)
  /\ hist' = [hist EXCEPT !.nfault = @ + 1]

\* The inner loop is through with a segment: the outer loop goes on with
\* the next one, or ends, and the second loop starts to range over
\* db.segments.
MergeNext(t) ==
  /\ pc[t] = "merge_copy"
  /\ MergeTodo(t) = {}
  /\ IF loc[t].si < Len(loc[t].snap)
     THEN /\ Commit(dir, files, heap, segments, activeSegment,
                    [loc EXCEPT ![t].si = @ + 1,
                                ![t].todo = IndexKeys(heap, loc[t].snap,
                                                      loc[t].si + 1)])
          /\ Goto(t, "merge_copy")
     ELSE /\ Commit(dir, files, heap, segments, activeSegment,
                    [loc EXCEPT ![t].snap = segments, ![t].si = 1,
                                ![t].todo = {}])
          /\ Goto(t, "merge_remove")
  /\ UNCHANGED <<segmentSize, dbState, hist>>

\* s.file.Close(); os.Remove(s.filePath), for the next segment s.
MergeRemove(t) ==
  /\ pc[t] = "merge_remove"
  /\ loc[t].si <= Len(loc[t].snap)
  /\ LET s == loc[t].snap[loc[t].si]
     IN Commit(Restrict(dir, DOMAIN dir \ {heap[s].filePath}), files,
               [heap EXCEPT ![s].closed = TRUE],
               segments, activeSegment, [loc EXCEPT ![t].si = @ + 1])
  /\ Goto(t, "merge_remove")
  /\ UNCHANGED <<segmentSize, dbState, hist>>

\* db.segments = []*Segment{mergedSegment}
MergeSegmentsSet(t) ==
  /\ pc[t] = "merge_remove"
  /\ loc[t].si > Len(loc[t].snap)
  /\ Commit(dir, files, heap, <<loc[t].mergedSegment>>, activeSegment,
            [loc EXCEPT ![t].snap = <<>>])
  /\ Goto(t, "merge_active")
  /\ UNCHANGED <<segmentSize, dbState, hist>>

\* db.activeSegment = mergedSegment
MergeActive(t) ==
  /\ pc[t] = "merge_active"
  /\ Commit(dir, files, heap, segments, loc[t].mergedSegment, loc)
  /\ Goto(t, "merge_index")
  /\ UNCHANGED <<segmentSize, dbState, hist>>

\* db.activeSegment.index = mergedIndex; return nil
MergeIndex(t) ==
  /\ pc[t] = "merge_index"
  /\ Commit(dir, files,
            [heap EXCEPT ![activeSegment].index = loc[t].mergedIndex],
            segments, activeSegment, Reset(t))
  /\ MergeDone(t, FALSE)
  /\ UNCHANGED hist

----------------------------------------------------------------------------
(* Db.Get(key), statement by statement.                                    *)

\* What Get returns, with what it read as when Get was called and the Puts
\* that ran while Get did (those called after the Puts counted at the call).
GetRet(t, r) ==
  [op |-> "Get", err |-> r.st # "ok", at |-> r.st, key |-> loc[t].key,
   value |-> r.value, before |-> loc[t].before,
   during |-> (loc[t].puts + 1)..hist.nput]

\* The threads inside Put.
InPut == {t \in Threads : pc[t] \in {"put_index", "put_offset", "put_size",
                                     "put_create", "put_append", "put_active"}}

\* Get is called: i := len(db.segments) - 1
GetCall(t, key) ==
  /\ dbState = "open"
  /\ pc[t] = "idle"
  /\ Commit(dir, files, heap, segments, activeSegment,
            [loc EXCEPT ![t] = [Loc0 EXCEPT !.key = key, !.i = Len(segments),
                                           !.before = Get(key),
                                           !.puts = hist.nput
                                                     - Cardinality(InPut)]])
  /\ Goto(t, "get_index")
  /\ hist' = [hist EXCEPT !.nget = @ + 1]
  /\ UNCHANGED <<segmentSize, dbState>>

GetDone(t, r) ==
  /\ Return(t, GetRet(t, r))
  /\ Commit(dir, files, heap, segments, activeSegment, Reset(t))
  /\ UNCHANGED <<segmentSize, dbState, hist>>

\* One turn of the loop: segment := db.segments[i]; offset, ok :=
\* segment.index[key].  The loop ends with ErrNotFound.
GetIndex(t) ==
  /\ pc[t] = "get_index"
  /\ loc[t].i <= Len(segments)
  /\ IF loc[t].i = 0
     THEN GetDone(t, NotFound)
     ELSE LET segment == heap[segments[loc[t].i]]
          IN /\ Commit(dir, files, heap, segments, activeSegment,
                       IF loc[t].key \in DOMAIN segment.index
                       THEN [loc EXCEPT ![t].filePath = segment.filePath,
                                        ![t].offset =
                                           segment.index[loc[t].key]]
                       ELSE [loc EXCEPT ![t].i = @ - 1])
             /\ Goto(t, IF loc[t].key \in DOMAIN segment.index
                        THEN "get_read" ELSE "get_index")
             /\ UNCHANGED <<segmentSize, dbState, hist>>

\* os.Open(segment.filePath); f.Seek(offset); record.DecodeFromReader
GetRead(t) ==
  /\ pc[t] = "get_read"
  /\ GetDone(t, IF loc[t].filePath \notin DOMAIN dir THEN IOError
                ELSE LET record == DecodeFromReader(
                                      files[dir[loc[t].filePath]],
                                      loc[t].offset)
                     IN IF record.st = "ok"
                        THEN [st |-> "ok", value |-> record.value]
                        ELSE IOError)

\* The process dies and takes every handler with it: the Get of thread t has
\* no result.
Fatal(t, why) ==
  /\ dbState' = "closed"
  /\ Commit(dir, files, <<>>, <<>>, 0, [u \in Threads |-> Loc0])
  /\ pc' = [u \in Threads |-> "idle"]
  /\ UNCHANGED lbvars
  /\ ret' = [u \in Threads |->
               IF u = t THEN GetRet(t, [st |-> why, value |-> <<>>])
               ELSE [Ret0 EXCEPT !.op = "Crash"]]
  /\ hist' = [hist EXCEPT !.nrestart = @ + 1, !.crashAt = why]
  /\ UNCHANGED segmentSize

\* The map read segment.index[key] of Get and the map write
\* db.activeSegment.index[key] = ... of a Put that no lock orders are a data
\* race; the Go runtime may stop the process with "fatal error: concurrent
\* map read and map write".
GetIndexRace(t) ==
  /\ pc[t] = "get_index"
  /\ loc[t].i \in 1..Len(segments)
  /\ \E u \in Threads \ {t} :
        pc[u] = "put_index" /\ activeSegment = segments[loc[t].i]
  /\ Fatal(t, "concurrent map read and map write")

\* db.segments[i] with i past the end of the slice: the handler panics.
GetIndexPanic(t) ==
  /\ pc[t] = "get_index"
  /\ loc[t].i > Len(segments)
  /\ GetDone(t, [st |-> "index out of range", value |-> <<>>])

GetStep(t) == GetIndex(t) \/ GetRead(t)

----------------------------------------------------------------------------
(* The process stops: every handle and every object in memory is gone, the *)
(* directory and the files with a name stay.                               *)

Crash ==
  /\ dbState = "open"
  /\ dbState' = "closed"
  /\ Commit(dir, files, <<>>, <<>>, 0, [t \in Threads |-> Loc0])
  /\ pc' = [t \in Threads |-> "idle"]
  /\ UNCHANGED lbvars
  /\ ret' = [t \in Threads |-> [Ret0 EXCEPT !.op = "Crash"]]
  /\ hist' = [hist EXCEPT !.nrestart = @ + 1,
                          !.crashAt = IF \E t \in Threads : pc[t] # "idle"
                                      THEN pc[CHOOSE t \in Threads : pc[t] # "idle"]
                                      ELSE "idle"]
  /\ UNCHANGED segmentSize

----------------------------------------------------------------------------
(* Specifications.                                                         *)

PutStep(t) ==
  \/ PutIndex(t) \/ PutOffset(t) \/ PutSize(t) \/ PutCreate(t)
  \/ PutAppend(t) \/ PutActive(t)

MergeStep(t) ==
  \/ MergeRange(t)
  \/ \E key \in Keys : MergeCopy(t, key)
  \/ MergeNext(t) \/ MergeRemove(t) \/ MergeSegmentsSet(t)
  \/ MergeActive(t) \/ MergeIndex(t)

\* One client, no I/O failure: the handlers run one after the other.
Next ==
  \/ Open(1)
  \/ hist.nrestart < MaxRestarts /\ Close(1)
  \/ \E key \in Keys : hist.nput < MaxPuts /\ PutWrite(1, key)
  \/ PutStep(1)
  \/ hist.nmerge < MaxMerges /\ MergeCreate(1)
  \/ MergeStep(1)

Spec == Init /\ [][Next]_vars

\* One client and I/O failures of Write, Stat and OpenFile.
NextFault ==
  \/ Open(1)
  \/ \E key \in Keys : hist.nput < MaxFaultPuts /\ PutWrite(1, key)
  \/ PutStep(1)
  \/ \E key \in Keys, n \in PartialWrites :
        hist.nput < MaxFaultPuts /\ PutWriteFail(1, key, n)
  \/ PutSizeFail(1)
  \/ PutCreateFail(1)
  \/ hist.nmerge < MaxFaultMerges /\ MergeCreate(1)
  \/ MergeStep(1)
  \/ hist.nmerge < MaxFaultMerges /\ MergeCreateFail(1)
  \/ \E key \in Keys : MergeReadFail(1, key)
  \/ \E key \in Keys, n \in PartialWrites : MergeWriteFail(1, key, n)

SpecFault == Init /\ [][NextFault]_vars

\* One client; the process may stop at any statement and be started again.
NextCrash ==
  \/ Open(1)
  \/ \E key \in Keys : hist.nput < MaxCrashPuts /\ PutWrite(1, key)
  \/ PutStep(1)
  \/ hist.nmerge < MaxCrashMerges /\ MergeCreate(1)
  \/ MergeStep(1)
  \/ hist.nrestart < MaxRestarts /\ Crash

SpecCrash == Init /\ [][NextCrash]_vars

\* One client that writes many segments, closes the store and opens it again.
InitLong == Init /\ segmentSize = 1

NextLong ==
  \/ Open(1)
  \/ hist.nrestart < MaxRestarts /\ Close(1)
  \/ \E key \in LongKeys : hist.nput < MaxLongPuts /\ PutWrite(1, key)
  \/ PutStep(1)

SpecLong == InitLong /\ [][NextLong]_vars

\* Two clients call Put and MergeSegments on one Db at the same time.
NextConc ==
  \/ Open(1)
  \/ \E t \in Threads :
        \/ \E key \in Keys : hist.nput < MaxConcPuts /\ PutWrite(t, key)
        \/ \E key \in Keys :
              /\ hist.nput < MaxConcPuts
              /\ dbState = "open" /\ heap[activeSegment].closed
              /\ PutWriteFail(t, key, 0)
        \/ PutStep(t)
        \/ dbState = "open" /\ heap[activeSegment].closed /\ PutSizeFail(t)
        \/ hist.nmerge < MaxConcMerges /\ MergeCreate(t)
        \/ MergeStep(t)
        \/ \E key \in Keys : MergeReadFail(t, key)

SpecConc == Init /\ [][NextConc]_vars

\* One client calls Put while another one calls Get.
NextGet ==
  \/ Open(1)
  \/ \E key \in Keys : hist.nput < MaxGetPuts /\ PutWrite(1, key)
  \/ PutStep(1)
  \/ \E key \in Keys : hist.nget < MaxGets /\ GetCall(2, key)
  \/ GetStep(2)
  \/ GetIndexRace(2)

SpecGet == Init /\ [][NextGet]_vars

\* One client calls Put and MergeSegments, one after the other, while
\* another one calls Get.
NextGetMerge ==
  \/ Open(1)
  \/ \E key \in Keys : hist.nput < MaxRacePuts /\ PutWrite(1, key)
  \/ PutStep(1)
  \/ hist.nmerge < MaxRaceMerges /\ MergeCreate(1)
  \/ MergeStep(1)
  \/ \E key \in Keys : hist.nget < MaxRaceGets /\ GetCall(2, key)
  \/ GetStep(2)
  \/ GetIndexRace(2)
  \/ GetIndexPanic(2)

SpecGetMerge == Init /\ [][NextGetMerge]_vars

----------------------------------------------------------------------------
(* The health prober of backend i: health(server), then ten seconds of     *)
(* sleep, for ever.                                                        *)

\* resp, err := http.DefaultClient.Do(req); currentStatus is true when there
\* is a response and its status is http.StatusOK.
HealthProbe(i, h) ==
  /\ hpc[i] = "idle"
  /\ hpc' = [hpc EXCEPT ![i] = "health_set"]
  /\ hloc' = [hloc EXCEPT ![i] =
                [currentStatus |-> backend[i].health = StatusOK,
                 answer |-> backend[i].health]]
  /\ lbhist' = h
  /\ UNCHANGED <<servers, backend, rpc, rloc, rw, traceEnabled>>
  /\ UNCHANGED dbvars

\* A probe that is counted, for the specifications with so many probes.
HealthDo(i) == HealthProbe(i, [lbhist EXCEPT !.nprobe = @ + 1])

\* A probe of the loop that never ends: for { health(s); time.Sleep(...) }
HealthLoop(i) == HealthProbe(i, lbhist)

\* HealthSet that marks a backend not-alive and never alive again.
HealthSetDown(i) ==
  /\ hpc[i] = "health_set"
  /\ servers' = SetAlive(servers, i,
                         IsAlive(servers[i]) /\ hloc[i].currentStatus)
  /\ hpc' = [hpc EXCEPT ![i] = "idle"]
  /\ hloc' = [hloc EXCEPT ![i] = HLoc0]
  /\ lbhist' = [lbhist EXCEPT
                  !.probe[i] = [outcome |-> IF hloc[i].currentStatus
                                            THEN "ok" ELSE "failed",
                                answer |-> hloc[i].answer,
                                was |-> IsAlive(servers[i]),
                                alive |-> IsAlive(servers'[i])]]
  /\ UNCHANGED <<backend, rpc, rloc, rw, traceEnabled>>
  /\ UNCHANGED dbvars

\* HealthSet that marks a backend alive and never not-alive.
HealthSetUp(i) ==
  /\ hpc[i] = "health_set"
  /\ servers' = IF hloc[i].currentStatus THEN SetAlive(servers, i, TRUE)
                ELSE servers
  /\ hpc' = [hpc EXCEPT ![i] = "idle"]
  /\ hloc' = [hloc EXCEPT ![i] = HLoc0]
  /\ lbhist' = [lbhist EXCEPT
                  !.probe[i] = [outcome |-> IF hloc[i].currentStatus
                                            THEN "ok" ELSE "failed",
                                answer |-> hloc[i].answer,
                                was |-> IsAlive(servers[i]),
                                alive |-> IsAlive(servers'[i])]]
  /\ UNCHANGED <<backend, rpc, rloc, rw, traceEnabled>>
  /\ UNCHANGED dbvars

\* HealthSet that stores a fresh entry for the backend.
HealthSetFresh(i) ==
  /\ hpc[i] = "health_set"
  /\ servers' = [servers EXCEPT
                   ![i] = ServerInfo(GetURL(servers[i]),
                                     hloc[i].currentStatus, 0)]
  /\ hpc' = [hpc EXCEPT ![i] = "idle"]
  /\ hloc' = [hloc EXCEPT ![i] = HLoc0]
  /\ lbhist' = [lbhist EXCEPT
                  !.probe[i] = [outcome |-> IF hloc[i].currentStatus
                                            THEN "ok" ELSE "failed",
                                answer |-> hloc[i].answer,
                                was |-> IsAlive(servers[i]),
                                alive |-> IsAlive(servers'[i])]]
  /\ UNCHANGED <<backend, rpc, rloc, rw, traceEnabled>>
  /\ UNCHANGED dbvars

\* server.SetAlive(currentStatus); the probe is through.
HealthSet(i) ==
  /\ hpc[i] = "health_set"
  /\ servers' = SetAlive(servers, i, hloc[i].currentStatus)
  /\ hpc' = [hpc EXCEPT ![i] = "idle"]
  /\ hloc' = [hloc EXCEPT ![i] = HLoc0]
  /\ lbhist' = [lbhist EXCEPT
                  !.probe[i] = [outcome |-> IF hloc[i].currentStatus
                                            THEN "ok" ELSE "failed",
                                answer |-> hloc[i].answer,
                                was |-> IsAlive(servers[i]),
                                alive |-> IsAlive(servers'[i])]]
  /\ UNCHANGED <<backend, rpc, rloc, rw, traceEnabled>>
  /\ UNCHANGED dbvars

\* The environment: backend i starts to behave as b.
BackendSet(i, b) ==
  /\ i \in DOMAIN backend
  /\ backend[i] # b
  /\ backend' = [backend EXCEPT ![i] = b]
  /\ lbhist' = [lbhist EXCEPT !.nflip = @ + 1]
  /\ UNCHANGED <<servers, hpc, hloc, rpc, rloc, rw, traceEnabled>>
  /\ UNCHANGED dbvars

----------------------------------------------------------------------------
(* The request handler of main(): selectServerLeastTraffic, then forward.  *)

LbGoto(r, label) ==
  /\ rpc' = [rpc EXCEPT ![r] = label]
  /\ UNCHANGED <<backend, hpc, hloc, traceEnabled>>
  /\ UNCHANGED dbvars

\* The handler returns: the request is answered.
LbReturn(r, h) ==
  /\ rpc' = [rpc EXCEPT ![r] = "idle"]
  /\ rloc' = [rloc EXCEPT ![r] = RLoc0]
  /\ lbhist' = [h EXCEPT !.req[r].done = TRUE]
  /\ UNCHANGED <<backend, hpc, hloc, traceEnabled>>
  /\ UNCHANGED dbvars

\* A request arrives: selectServerLeastTraffic starts its first loop.
Call(r) ==
  /\ rpc[r] = "idle"
  /\ rloc' = [rloc EXCEPT ![r] = [RLoc0 EXCEPT !.i = 1]]
  /\ rw' = [rw EXCEPT ![r] = Rw0]
  /\ lbhist' = [lbhist EXCEPT !.ncall = @ + 1,
                              !.req[r] = [Req0 EXCEPT !.pre = servers]]
  /\ LbGoto(r, "select_alive")
  /\ UNCHANGED servers

\* if server.IsAlive() { availableServers = append(availableServers, server) }
SelectAlive(r) ==
  /\ rpc[r] = "select_alive"
  /\ rloc[r].i <= Len(servers)
  /\ LET i == rloc[r].i
     IN /\ rloc' = [rloc EXCEPT ![r].i = i + 1,
                                ![r].availableServers =
                                   IF IsAlive(servers[i]) THEN Append(@, i)
                                   ELSE @]
        /\ lbhist' = [lbhist EXCEPT !.req[r].read =
                                      Extend(@, i, lbhist.probe[i].outcome)]
  /\ LbGoto(r, "select_alive")
  /\ UNCHANGED <<servers, rw>>

\* SelectNil without the http.Error: the handler returns and the server
\* answers with its default status.
SelectNilSilent(r) ==
  /\ rpc[r] = "select_alive"
  /\ rloc[r].i > Len(servers)
  /\ rloc[r].availableServers = <<>>
  /\ rw' = [rw EXCEPT ![r].code = StatusOK]
  /\ LbReturn(r, [lbhist EXCEPT !.req[r].selected = 0])
  /\ UNCHANGED servers

\* len(availableServers) == 0: selectServerLeastTraffic returns nil and the
\* handler answers http.Error(rw, ..., http.StatusServiceUnavailable).
SelectNil(r) ==
  /\ rpc[r] = "select_alive"
  /\ rloc[r].i > Len(servers)
  /\ rloc[r].availableServers = <<>>
  /\ rw' = [rw EXCEPT ![r].code = StatusServiceUnavailable]
  /\ LbReturn(r, [lbhist EXCEPT !.req[r].selected = 0])
  /\ UNCHANGED servers

\* Some backend is available: the second loop starts.
SelectSome(r) ==
  /\ rpc[r] = "select_alive"
  /\ rloc[r].i > Len(servers)
  /\ rloc[r].availableServers # <<>>
  /\ rloc' = [rloc EXCEPT ![r].i = 1]
  /\ LbGoto(r, "select_traffic")
  /\ UNCHANGED <<servers, rw, lbhist>>

\* SelectTraffic with > for <: the greatest counter wins.
SelectTrafficMost(r) ==
  /\ rpc[r] = "select_traffic"
  /\ rloc[r].i <= Len(rloc[r].availableServers)
  /\ LET server == rloc[r].availableServers[rloc[r].i]
         currentServerTraffic == GetTraffic(servers[server])
     IN rloc' = IF rloc[r].selectedServer = 0
                   \/ currentServerTraffic > rloc[r].minTraffic
                THEN [rloc EXCEPT ![r].i = @ + 1,
                                  ![r].minTraffic = currentServerTraffic,
                                  ![r].selectedServer = server]
                ELSE [rloc EXCEPT ![r].i = @ + 1]
  /\ LbGoto(r, "select_traffic")
  /\ UNCHANGED <<servers, rw, lbhist>>

\* SelectTraffic with <= for <: among equal counters the last one wins.
SelectTrafficLast(r) ==
  /\ rpc[r] = "select_traffic"
  /\ rloc[r].i <= Len(rloc[r].availableServers)
  /\ LET server == rloc[r].availableServers[rloc[r].i]
         currentServerTraffic == GetTraffic(servers[server])
     IN rloc' = IF rloc[r].selectedServer = 0
                   \/ currentServerTraffic <= rloc[r].minTraffic
                THEN [rloc EXCEPT ![r].i = @ + 1,
                                  ![r].minTraffic = currentServerTraffic,
                                  ![r].selectedServer = server]
                ELSE [rloc EXCEPT ![r].i = @ + 1]
  /\ LbGoto(r, "select_traffic")
  /\ UNCHANGED <<servers, rw, lbhist>>

\* currentServerTraffic := server.GetTraffic()
\* if selectedServer == nil || currentServerTraffic < minTraffic { ... }
SelectTraffic(r) ==
  /\ rpc[r] = "select_traffic"
  /\ rloc[r].i <= Len(rloc[r].availableServers)
  /\ LET server == rloc[r].availableServers[rloc[r].i]
         currentServerTraffic == GetTraffic(servers[server])
     IN rloc' = IF rloc[r].selectedServer = 0
                   \/ currentServerTraffic < rloc[r].minTraffic
                THEN [rloc EXCEPT ![r].i = @ + 1,
                                  ![r].minTraffic = currentServerTraffic,
                                  ![r].selectedServer = server]
                ELSE [rloc EXCEPT ![r].i = @ + 1]
  /\ LbGoto(r, "select_traffic")
  /\ UNCHANGED <<servers, rw, lbhist>>

\* return selectedServer; the handler calls forward: dst := server.GetURL()
SelectReturn(r) ==
  /\ rpc[r] = "select_traffic"
  /\ rloc[r].i > Len(rloc[r].availableServers)
  /\ LET server == rloc[r].selectedServer
     IN /\ rloc' = [rloc EXCEPT ![r].dst = GetURL(servers[server])]
        /\ lbhist' = [lbhist EXCEPT
                        !.req[r].selected = server,
                        !.req[r].gate = lbhist.probe[server].outcome]
  /\ LbGoto(r, "forward_do")
  /\ UNCHANGED <<servers, rw>>

\* resp, err := http.DefaultClient.Do(fwdRequest) gets a response.
ForwardDo(r) ==
  /\ rpc[r] = "forward_do"
  /\ backend[rloc[r].dst].up
  /\ rloc' = [rloc EXCEPT ![r].StatusCode = StatusOK,
                          ![r].Body = backend[rloc[r].dst].body]
  /\ lbhist' = [lbhist EXCEPT !.req[r].contacted = @ \cup {rloc[r].dst}]
  /\ LbGoto(r, "forward_header")
  /\ UNCHANGED <<servers, rw>>

\* Do returns an error: no connection, or no response in time.
ForwardDoFail(r) ==
  /\ rpc[r] = "forward_do"
  /\ ~backend[rloc[r].dst].up
  /\ lbhist' = [lbhist EXCEPT !.req[r].contacted = @ \cup {rloc[r].dst}]
  /\ LbGoto(r, "forward_fail")
  /\ UNCHANGED <<servers, rw, rloc>>

\* server.SetAlive(false); rw.WriteHeader(503); return err
ForwardFail(r) ==
  /\ rpc[r] = "forward_fail"
  /\ servers' = SetAlive(servers, rloc[r].selectedServer, FALSE)
  /\ rw' = [rw EXCEPT ![r].code = StatusServiceUnavailable]
  /\ LbReturn(r, [lbhist EXCEPT !.req[r].failed = "do"])

\* The headers lb-from and lb-traffic-before when tracing is enabled, then
\* rw.WriteHeader(resp.StatusCode).
ForwardHeader(r) ==
  /\ rpc[r] = "forward_header"
  /\ rw' = IF traceEnabled
           THEN [rw EXCEPT ![r].from = rloc[r].dst,
                           ![r].before =
                              GetTraffic(servers[rloc[r].selectedServer]),
                           ![r].code = rloc[r].StatusCode]
           ELSE [rw EXCEPT ![r].code = rloc[r].StatusCode]
  /\ LbGoto(r, "forward_copy")
  /\ UNCHANGED <<servers, rloc, lbhist>>

\* bytesWritten, copyErr := io.Copy(rw, resp.Body) streams the whole body.
\* With no byte written forward returns nil at once.
ForwardCopy(r) ==
  /\ rpc[r] = "forward_copy"
  /\ rw' = [rw EXCEPT ![r].body = rloc[r].Body]
  /\ LET server == rloc[r].selectedServer
         h == [lbhist EXCEPT !.served[server] = @ + rloc[r].Body,
                             !.count[server] = @ + 1,
                             !.req[r].was = GetTraffic(servers[server]),
                             !.req[r].became = GetTraffic(servers[server])]
     IN IF rloc[r].Body > 0
        THEN /\ rloc' = [rloc EXCEPT ![r].bytesWritten = rloc[r].Body]
             /\ lbhist' = h
             /\ LbGoto(r, "forward_add")
        ELSE LbReturn(r, h)
  /\ UNCHANGED servers

\* io.Copy fails after n bytes, because the backend stalls past the timeout
\* or resets the connection, or because the client went away: forward
\* returns copyErr.
ForwardCopyFail(r, cause, n) ==
  /\ rpc[r] = "forward_copy"
  /\ n = 0 \/ n < rloc[r].Body
  /\ rw' = [rw EXCEPT ![r].body = n]
  /\ LbReturn(r, [lbhist EXCEPT !.req[r].failed = cause, !.nfault = @ + 1])
  /\ UNCHANGED servers

\* server.AddTraffic(bytesWritten); without tracing forward returns nil.
ForwardAdd(r) ==
  /\ rpc[r] = "forward_add"
  /\ LET server == rloc[r].selectedServer
         h == [lbhist EXCEPT
                 !.req[r].was = GetTraffic(servers[server]),
                 !.req[r].became = GetTraffic(servers'[server])]
     IN /\ servers' = AddTraffic(servers, server, rloc[r].bytesWritten)
        /\ IF traceEnabled
           THEN /\ lbhist' = h
                /\ LbGoto(r, "forward_after")
                /\ UNCHANGED rloc
           ELSE LbReturn(r, h)
  /\ UNCHANGED rw

\* rw.Header().Set("lb-traffic-after", server.GetTraffic()); return nil
ForwardAfter(r) ==
  /\ rpc[r] = "forward_after"
  /\ rw' = [rw EXCEPT ![r].after =
                         GetTraffic(servers[rloc[r].selectedServer])]
  /\ LbReturn(r, lbhist)
  /\ UNCHANGED servers

Select(r) ==
  \/ SelectAlive(r) \/ SelectNil(r) \/ SelectSome(r)
  \/ SelectTraffic(r) \/ SelectReturn(r)

Forward(r) ==
  \/ ForwardDo(r) \/ ForwardDoFail(r) \/ ForwardFail(r) \/ ForwardHeader(r)
  \/ ForwardCopy(r) \/ ForwardAdd(r) \/ ForwardAfter(r)

----------------------------------------------------------------------------
(* Specifications of the balancer.                                         *)

\* The store is not part of the balancer's process.
NoStore == DbInit /\ segmentSize = 1

\* A balancer with registry sv in front of the backends b.
LbStart(sv, b, trace) ==
  /\ servers = sv
  /\ backend = b
  /\ hpc = [i \in DOMAIN sv |-> "idle"]
  /\ hloc = [i \in DOMAIN sv |-> HLoc0]
  /\ rpc = [r \in Threads |-> "idle"]
  /\ rloc = [r \in Threads |-> RLoc0]
  /\ rw = [r \in Threads |-> Rw0]
  /\ traceEnabled = trace
  /\ lbhist = LbHist(sv)

\* Any registry of up to as many backends as the pool has, as the tests of
\* selectServerLeastTraffic set it up, and no prober: the registry changes
\* only by what the requests do.  Requests come one after the other.
InitSelect ==
  /\ NoStore
  /\ \E n \in 0..Len(serversPoolStrings) :
        \E alive \in [1..n -> BOOLEAN], traffic \in [1..n -> Traffics],
           up \in [1..n -> BOOLEAN], body \in [1..n -> Bodies],
           trace \in BOOLEAN :
           LbStart([i \in 1..n |-> ServerInfo(i, alive[i], traffic[i])],
                   [i \in 1..n |-> Backend(StatusOK, up[i], body[i])],
                   trace)

NextSelect ==
  \/ lbhist.ncall < MaxSelectCalls /\ Call(1)
  \/ Select(1)
  \/ Forward(1)
  \/ \E cause \in CopyFailures, n \in PartialBodies :
        lbhist.nfault < MaxCopyFaults /\ ForwardCopyFail(1, cause, n)

SpecSelect == InitSelect /\ [][NextSelect]_vars

\* A backend that serves, and what a backend may turn into: one that fails
\* its health check, one that answers it with 204 No Content, one that is
\* down, one that serves empty bodies.
Serving == Backend(StatusOK, TRUE, 5)

Down == Backend(0, FALSE, 5)

Backends ==
  {Serving, Down, Backend(500, TRUE, 5), Backend(204, TRUE, 5),
   Backend(StatusOK, TRUE, 0)}

\* The balancer as main() starts it, with tracing, in front of backends
\* that all serve or are all down.
InitLb ==
  /\ NoStore
  /\ \E b \in {Serving, Down} :
        LbStart(MainServers, [i \in DOMAIN MainServers |-> b], TRUE)

\* One prober per backend and two requests at a time; of the two, the one
\* of thread 1 is the one that came first.
NextLb ==
  \/ \E i \in DOMAIN MainServers :
        lbhist.nprobe < MaxProbes /\ HealthDo(i)
  \/ \E i \in DOMAIN MainServers : HealthSet(i)
  \/ \E r \in Threads :
        \/ lbhist.ncall < MaxCalls /\ (r = 1 \/ lbhist.ncall > 0) /\ Call(r)
        \/ Select(r)
        \/ Forward(r)
        \/ \E cause \in CopyFailures :
              lbhist.nfault < MaxCopyFaults /\ ForwardCopyFail(r, cause, 0)

SpecLb == InitLb /\ [][NextLb]_vars

\* One prober per backend and one request at a time, in front of backends
\* that change.
NextProbe ==
  \/ \E i \in DOMAIN MainServers :
        lbhist.nprobe < MaxGateProbes /\ HealthDo(i)
  \/ \E i \in DOMAIN MainServers : HealthSet(i)
  \/ \E i \in DOMAIN MainServers, b \in Backends :
        lbhist.nflip < MaxFlips /\ BackendSet(i, b)
  \/ lbhist.ncall < MaxGateCalls /\ Call(1)
  \/ Select(1)
  \/ Forward(1)

SpecProbe == InitLb /\ [][NextProbe]_vars

\* The balancer as main() starts it, with or without tracing, in front of
\* three backends that serve bodies of 5, 5 and 10 bytes.
InitFair ==
  /\ NoStore
  /\ \E trace \in BOOLEAN :
        LbStart(MainServers,
                <<Serving, Serving, Backend(StatusOK, TRUE, 10)>>, trace)

\* One prober per backend and one request after the other; the backends
\* stay as they are, so that no probe and no forward fails.
NextFair ==
  \/ \E i \in DOMAIN MainServers :
        lbhist.nprobe < MaxFairProbes /\ HealthDo(i)
  \/ \E i \in DOMAIN MainServers : HealthSet(i)
  \/ lbhist.ncall < MaxFairCalls /\ Call(1)
  \/ SelectAlive(1) \/ SelectSome(1) \/ SelectTraffic(1) \/ SelectReturn(1)
  \/ ForwardDo(1) \/ ForwardHeader(1) \/ ForwardCopy(1)
  \/ ForwardAdd(1) \/ ForwardAfter(1)

SpecFair == InitFair /\ [][NextFair]_vars

\* One prober per backend, each in its loop for ever, and one request at a
\* time, in front of backends of which the first changes.
NextRecover ==
  \/ \E i \in DOMAIN MainServers : HealthLoop(i)
  \/ \E i \in DOMAIN MainServers : HealthSet(i)
  \/ \E b \in {Serving, Down, Backend(500, TRUE, 5)} :
        lbhist.nflip < MaxRecoverFlips /\ BackendSet(1, b)
  \/ lbhist.ncall < MaxRecoverCalls /\ Call(1)
  \/ Select(1)
  \/ Forward(1)

\* The Go scheduler runs every goroutine that can run, and the request of
\* a probe ends, with a response or with the timeout of its context.
SpecRecover ==
  /\ InitLb
  /\ [][NextRecover]_vars
  /\ \A i \in DOMAIN MainServers :
        WF_vars(HealthLoop(i)) /\ WF_vars(HealthSet(i))

----------------------------------------------------------------------------
(* Claims.                                                                 *)

Ok(value) == [st |-> "ok", value |-> value]

\* Thread 1 has returned from handler op without an error and nothing runs.
Returned(op) == Idle /\ dbState = "open" /\ ret[1].op = op /\ ~ret[1].err

\* Every segment of the sequence is backed by the file its path names.
Backed ==
  \A i \in DOMAIN segments :
     /\ heap[segments[i]].filePath \in DOMAIN dir
     /\ dir[heap[segments[i]].filePath] = heap[segments[i]].ino

\* C1. Last-write-wins: on an open Db on which only Put was called since
\* Open, Get(k) returns the value of the most recent Put of k, for every key
\* written, whatever number of rollovers the Puts triggered.
C1_LastWriteWins ==
  (Idle /\ dbState = "open" /\ hist.lifeMerges = 0)
     => \A k \in DOMAIN hist.life : Get(k) = Ok(hist.life[k])

\* C2. Merge preservation: in a store reached by Puts and rollovers alone,
\* when MergeSegments has returned nil, every key that was readable before
\* the merge reads as the same value as before it.
C2_MergePreserves ==
  (Returned("Merge") /\ hist.nmerge = 1 /\ hist.nrestart = 0)
     => \A k \in Keys : hist.pre.get[k].st = "ok" => Get(k) = hist.pre.get[k]

\* C3. Merge idempotence: when MergeSegments has returned nil directly after
\* a MergeSegments that returned nil, every Get returns what it returned
\* after the first merge and every segment of the store is backed by a file
\* that exists in the directory.
C3_MergeIdempotent ==
  (Returned("Merge") /\ hist.prev.op = "Merge" /\ ~hist.prev.err)
     => GetAll = hist.pre.get /\ Backed

\* C5. Merge then restart: when MergeSegments has returned nil the directory
\* holds exactly one segment file, the file of the single, active segment;
\* and in a store that was merged, further written, closed and opened again,
\* every Get returns the value last written for its key.
C5_MergeThenRestart ==
  /\ Returned("Merge")
       => /\ Cardinality(DOMAIN dir) = 1
          /\ segments = <<activeSegment>>
          /\ Backed
  /\ (Returned("Open") /\ hist.prev.op = "Close" /\ hist.nmerge > 0)
       => \A k \in DOMAIN hist.last : Get(k) = Ok(hist.last[k])

\* C7. Segment rollover: when Put has returned nil and the file of the
\* segment it wrote to has reached segmentSize, the active segment is a new,
\* empty segment appended to the sequence, with an ordinal greater than that
\* of the segment written to, and the file and the index of every segment
\* that was sealed before the call are as they were.
C7_Rollover ==
  (Returned("Put")
     /\ Len(files[hist.pre.heap[hist.pre.activeSegment].ino]) >= segmentSize)
     => /\ segments = Append(hist.pre.segments, activeSegment)
        /\ activeSegment \notin Range(hist.pre.segments)
        /\ heap[activeSegment].index = <<>>
        /\ heap[activeSegment].offset = 0
        /\ files[heap[activeSegment].ino] = <<>>
        /\ heap[activeSegment].filePath
             > hist.pre.heap[hist.pre.activeSegment].filePath
        /\ \A s \in Range(hist.pre.segments) \ {hist.pre.activeSegment} :
              /\ heap[s] = hist.pre.heap[s]
              /\ files[heap[s].ino] = hist.pre.files[heap[s].ino]

\* C9. Get returns ErrNotFound exactly for the keys never written: on an
\* open Db, Get(k) is ErrNotFound if and only if no Put of k has returned
\* nil.
C9_NotFoundIffNeverWritten ==
  (Idle /\ dbState = "open")
     => \A k \in Keys : (Get(k) = NotFound) <=> (k \notin DOMAIN hist.last)

\* C4. Restart equivalence: after Puts alone (with their rollovers), Close
\* and Open on the same directory with the same segment size, Get returns
\* for every key ever written the value it returned before Close.
C4_RestartEquivalence ==
  (Returned("Open") /\ hist.prev.op = "Close" /\ hist.nmerge = 0)
     => \A k \in DOMAIN hist.last : Get(k) = hist.pre.get[k]

\* The statements of MergeSegments at which the output file exists and the
\* copy or the removal of the old files is under way.
InsideMerge == {"merge_range", "merge_copy", "merge_remove"}

\* C6. Crash during merge: when the process stopped inside MergeSegments and
\* the store was opened again, Get returns for every key what it returned
\* when the merge was called.
C6_CrashDuringMerge ==
  (Returned("Open") /\ hist.prev.op = "Crash" /\ hist.crashAt \in InsideMerge)
     => GetAll = hist.pre.get

\* The places where Put fails that C8 speaks of: the write and the size check.
WriteOrSizeCheck == {"put_write", "put_size"}

\* C8. Put failure atomicity: when Put has returned an error of the write or
\* of the size check, the index of the active segment is as it was when Put
\* was called and every Get returns what it returned then; and a Put that
\* returns nil later on the same active segment is read back by Get.
C8_PutFailureAtomic ==
  /\ (Idle /\ dbState = "open" /\ ret[1].op = "Put" /\ ret[1].err
        /\ ret[1].at \in WriteOrSizeCheck)
       => /\ activeSegment = hist.pre.activeSegment
          /\ heap[activeSegment].index = hist.pre.heap[activeSegment].index
          /\ GetAll = hist.pre.get
  /\ (Returned("Put") /\ hist.failed # 0
        /\ hist.pre.activeSegment = hist.failed /\ hist.lifeMerges = 0)
       => Get(ret[1].key) = Ok(ret[1].value)

\* Every index entry of every segment of the sequence is the offset of a
\* complete record of its key in the segment's file.
IndexSound ==
  \A i \in DOMAIN segments :
     LET segment == heap[segments[i]]
     IN \A k \in DOMAIN segment.index :
           /\ segment.filePath \in DOMAIN dir
           /\ LET record == DecodeFromReader(files[dir[segment.filePath]],
                                             segment.index[k])
              IN record.st = "ok" /\ record.key = k

\* C10. Writer mutual exclusion: when Puts called at the same time have all
\* returned nil, the store is as after the calls in some order: every index
\* entry points at a record written for its key and every written key is
\* read with the value of one of its Puts.
C10_WritersSerialized ==
  (Idle /\ dbState = "open")
     => /\ IndexSound
        /\ \A k \in DOMAIN hist.last :
              Get(k).st = "ok" /\ Get(k).value \in hist.put[k]

\* C11. No torn read: a Get(k) that ran while a single Put(k, v2) did, on
\* a key that read as v1 when Get was called, returns v1 or v2 and no error;
\* while a single Put of another key ran it returns v1.
C11_NoTornRead ==
  \A t \in Threads :
     (ret[t].op = "Get" /\ ret[t].before.st = "ok"
        /\ Cardinality(ret[t].during) <= 1)
        => /\ ~ret[t].err
           /\ \/ ret[t].value = ret[t].before.value
              \/ \E n \in ret[t].during :
                    <<n>> \in hist.put[ret[t].key] /\ ret[t].value = <<n>>

\* The backends of registry sv that are alive.
AliveIn(sv) == {i \in DOMAIN sv : IsAlive(sv[i])}

\* C12. Balancer selection: when selectServerLeastTraffic has returned a
\* backend on a registry that did not change during the call, the backend
\* is alive, no alive backend has a smaller TrafficBytes, and no alive
\* backend with the same TrafficBytes has a lower index.
C12_BalancerSelection ==
  (rpc[1] = "forward_do" /\ servers = lbhist.req[1].pre)
     => LET s == rloc[1].selectedServer
        IN /\ s \in AliveIn(servers)
           /\ \A j \in AliveIn(servers) :
                 /\ GetTraffic(servers[s]) <= GetTraffic(servers[j])
                 /\ GetTraffic(servers[s]) = GetTraffic(servers[j]) => s <= j

\* A selection among two alive backends with equal counters, beside a
\* backend that is not alive and has a smaller counter.
C12_Witness ==
  /\ rpc[1] = "forward_do" /\ servers = lbhist.req[1].pre
  /\ \E j \in DOMAIN servers \ AliveIn(servers) :
        GetTraffic(servers[j]) < GetTraffic(servers[rloc[1].selectedServer])
  /\ \E j \in AliveIn(servers) \ {rloc[1].selectedServer} :
        GetTraffic(servers[j]) = GetTraffic(servers[rloc[1].selectedServer])

\* The ways forward fails in transport: Do returns an error, or the backend
\* stalls or drops the connection while the body is read.
TransportFailures == {"do", "backend"}

\* C14. Fail-fast on transport failure: when the forwarded request has
\* failed in transport, the selected backend is marked not-alive, the
\* status written is 503, no TrafficBytes has changed and no backend but
\* the selected one was contacted.
C14_FailFast ==
  (rpc[1] = "idle" /\ lbhist.req[1].done
     /\ lbhist.req[1].failed \in TransportFailures)
     => LET s == lbhist.req[1].selected
        IN /\ ~IsAlive(servers[s])
           /\ rw[1].code = StatusServiceUnavailable
           /\ \A i \in DOMAIN servers :
                 GetTraffic(servers[i]) = GetTraffic(lbhist.req[1].pre[i])
           /\ lbhist.req[1].contacted = {s}

\* C15. No live backend: a request that found no backend of the registry
\* alive (the empty registry included) is answered with status 503 after
\* selectServerLeastTraffic returned nil, no backend was contacted, and no
\* alive flag and no counter has changed.
C15_NoLiveBackend ==
  (rpc[1] = "idle" /\ lbhist.req[1].done /\ AliveIn(lbhist.req[1].pre) = {})
     => /\ lbhist.req[1].selected = 0
        /\ rw[1].code = StatusServiceUnavailable
        /\ rw[1].body = 0
        /\ lbhist.req[1].contacted = {}
        /\ servers = lbhist.req[1].pre

\* A request answered on a registry of backends none of which is alive.
C15_Witness ==
  /\ rpc[1] = "idle" /\ lbhist.req[1].done
  /\ lbhist.req[1].pre # <<>> /\ AliveIn(lbhist.req[1].pre) = {}
  /\ rw[1].code = StatusServiceUnavailable

\* The requests for which selectServerLeastTraffic has returned a backend.
Selected == {r \in Threads : lbhist.req[r].selected > 0}

\* C13. Liveness gating, under any interleaving of probers and handlers: the
\* most recent completed probe of the backend that
\* selectServerLeastTraffic returns has not failed at the moment of the
\* return.
C13_LivenessGating ==
  \A r \in Selected : lbhist.req[r].gate # "failed"

\* C13 as amended: the most recent completed probe of the backend that
\* selectServerLeastTraffic returns had not failed when the call read the
\* backend's alive flag.
C13_GatingAtRead ==
  \A r \in Selected :
     lbhist.req[r].read[lbhist.req[r].selected] # "failed"

\* A selection that passed over a backend whose last probe had failed.
C13_Witness ==
  \E r \in Selected :
     \E i \in DOMAIN lbhist.req[r].read : lbhist.req[r].read[i] = "failed"

\* The backends of which a probe has completed.
Probed == {i \in DOMAIN servers : lbhist.probe[i].outcome # "none"}

\* The 2xx statuses.
Success == 200..299

\* C16. Health probe outcome: when health(server) completes, the alive flag
\* is true if the answer to GET /health had a 2xx status and false for any
\* other outcome, whatever the flag was before.
C16_ProbeOutcome ==
  \A i \in Probed :
     lbhist.probe[i].alive <=> lbhist.probe[i].answer \in Success

\* C16 as amended: when health(server) completes, the alive flag is true if
\* the answer to GET /health had status 200 and false for any other outcome
\* (another status, a 2xx other than 200 included, a network error, a
\* timeout), whatever the flag was before.
C16_ProbeOutcome200 ==
  \A i \in Probed :
     lbhist.probe[i].alive <=> lbhist.probe[i].answer = StatusOK

\* A probe that found the flag true and left it false, and one that found
\* it false and left it true.
C16_Witness ==
  /\ \E i \in Probed : lbhist.probe[i].was /\ ~lbhist.probe[i].alive
  /\ \E i \in Probed : ~lbhist.probe[i].was /\ lbhist.probe[i].alive

\* The body bytes that handlers have streamed to the end from backend i and
\* are about to add to its counter: AddTraffic is their next statement.
RECURSIVE Pending(_, _)
Pending(i, rs) ==
  IF rs = {} THEN 0
  ELSE LET r == CHOOSE x \in rs : TRUE
       IN (IF rpc[r] = "forward_add" /\ rloc[r].selectedServer = i
           THEN rloc[r].bytesWritten ELSE 0) + Pending(i, rs \ {r})

\* The requests that forward has answered with a whole response.
Forwarded ==
  {r \in Threads : /\ rpc[r] = "idle" /\ lbhist.req[r].done
                   /\ lbhist.req[r].selected > 0
                   /\ lbhist.req[r].failed = "" }

\* C17. Traffic accounting: the TrafficBytes of a backend is its initial
\* value plus the body bytes of all responses from it streamed to the end
\* (those that a handler is about to add not yet counted): no increment is
\* lost and none is counted twice, also when requests to one backend
\* complete at the same time.
C17_TrafficAccounting ==
  \A i \in DOMAIN servers :
     GetTraffic(servers[i]) + Pending(i, Threads)
        = GetTraffic(lbhist.first[i]) + lbhist.served[i]

\* Two requests to the same backend, the second of which read the counter
\* before the first one added to it, have both added their bytes.
C17_Witness ==
  /\ Forwarded = Threads
  /\ lbhist.req[1].selected = lbhist.req[2].selected
  /\ rw[1].before = rw[2].before
  /\ lbhist.req[1].became # lbhist.req[2].became

\* C18. Counter monotonicity: no step of a prober or of a handler makes the
\* TrafficBytes of a backend smaller.
C18_CounterMonotone ==
  [][\A i \in DOMAIN servers :
       GetTraffic(servers'[i]) >= GetTraffic(servers[i])]_vars

\* The counter of a backend has grown twice and its second probe is through.
C18_Witness ==
  \E i \in DOMAIN servers :
     /\ lbhist.count[i] = 2
     /\ GetTraffic(servers[i]) > GetTraffic(lbhist.first[i])
     /\ lbhist.probe[i].outcome = "ok"
     /\ hpc[i] = "idle"

\* Six requests, one after the other, have been answered.
SixServed ==
  /\ lbhist.ncall = 6
  /\ rpc[1] = "idle"
  /\ lbhist.req[1].done

\* C19. Fairness scenario S5: in front of three backends that stay alive,
\* start with counter 0 and serve bodies of 5, 5 and 10 bytes, six requests
\* one after the other are served by more than one backend, and each of the
\* two backends with 5 bytes serves at least 2 of the six.
C19_FairnessS5 ==
  SixServed =>
    /\ Cardinality({i \in DOMAIN servers : lbhist.count[i] > 0}) > 1
    /\ lbhist.count[1] >= 2
    /\ lbhist.count[2] >= 2

\* The six requests are through, all of them forwarded.
C19_Witness ==
  /\ SixServed
  /\ lbhist.count[1] + lbhist.count[2] + lbhist.count[3] = 6
  /\ \A i \in DOMAIN servers : IsAlive(servers[i])

\* C20. Trace headers: with tracing enabled, a response that was forwarded
\* carries lb-from, the chosen backend, lb-traffic-before, the counter of
\* that backend right before the increment of this request, and
\* lb-traffic-after, the counter right after it, so that their difference
\* is the number of body bytes of the response.
C20_TraceHeaders ==
  traceEnabled =>
    \A r \in Forwarded :
       /\ rw[r].from = GetURL(servers[lbhist.req[r].selected])
       /\ rw[r].before = lbhist.req[r].was
       /\ rw[r].after = lbhist.req[r].became
       /\ rw[r].after - rw[r].before = rw[r].body

\* Backend i answers /health with 200 and accepts connections.
Healthy(i) == backend[i].health = StatusOK /\ backend[i].up

\* C21. Failover recovery (S6): a backend that from some point on answers
\* every /health probe with 200, and no forward to which fails in
\* transport, is eventually marked alive and stays alive, so that the
\* selection takes it into account again, when its prober is scheduled
\* fairly.
C21_FailoverRecovery ==
  \A i \in DOMAIN MainServers :
     <>[]Healthy(i) => <>[]IsAlive(servers[i])

\* A backend that a probe had marked not-alive has turned healthy, and the
\* probe after that has marked it alive.
C21_Witness ==
  \E i \in DOMAIN MainServers :
     /\ lbhist.nflip > 0
     /\ Healthy(i)
     /\ lbhist.probe[i].outcome = "ok"
     /\ ~lbhist.probe[i].was
     /\ IsAlive(servers[i])

\* The segment that createSegment has just made for thread t, if any.
Created(t) ==
  IF pc[t] = "put_append" THEN loc[t].newSegment
  ELSE IF pc[t] \in InsideMerge THEN loc[t].mergedSegment
  ELSE 0

\* C22. Ordinal freshness: the file name that createSegment yields has an
\* ordinal strictly greater than every ordinal used before in this store
\* lifetime, those of the segments of the sequence among them, so that it
\* never names the file that backs another segment.
C22_OrdinalFreshness ==
  \A t \in Threads :
     Created(t) # 0
        => \A s \in Range(segments) \ {Created(t)} :
              heap[s].filePath < heap[Created(t)].filePath

\* C23. Segment index invariant: between the calls of the handlers, for
\* every segment of the sequence and every key k of its index, index[k] is
\* below the write offset of the segment and is the offset, in the file of
\* the segment, of a complete record of k, the last one of k in that file.
C23_SegmentIndex ==
  (Idle /\ dbState = "open")
     => \A i \in DOMAIN segments :
           LET segment == heap[segments[i]]
           IN \A k \in DOMAIN segment.index :
                 /\ segment.index[k] < segment.offset
                 /\ segment.filePath \in DOMAIN dir
                 /\ LET content == files[dir[segment.filePath]]
                        record == DecodeFromReader(content, segment.index[k])
                        last == RecoverFile(content, 0, <<>>)
                    IN /\ record.st = "ok" /\ record.key = k
                       /\ last.ok /\ k \in DOMAIN last.index
                       /\ last.index[k] = segment.index[k]

\* The segments that were sealed when the last handler was called.
SealedBefore == Range(hist.pre.segments) \ {hist.pre.activeSegment}

\* C24. Sealed segments are frozen: the active segment is the last of the
\* sequence and the only one a Put writes to; when Put has returned, every
\* segment that was sealed when it was called is in the sequence with the
\* file content and the index it had.
C24_SealedFrozen ==
  /\ (Idle /\ dbState = "open") => activeSegment = segments[Len(segments)]
  /\ Returned("Put")
       => \A s \in SealedBefore :
             /\ s \in Range(segments)
             /\ heap[s].index = hist.pre.heap[s].index
             /\ heap[s].filePath \in DOMAIN dir
             /\ files[dir[heap[s].filePath]]
                   = hist.pre.files[hist.pre.dir[heap[s].filePath]]

\* C25. Recovery order: when Open has returned, the segments of the
\* sequence are in increasing order of their ordinals, whatever ordinals
\* the directory held, and the active segment is the last one, that of the
\* highest ordinal; on an empty directory the sequence is one segment of
\* ordinal 0.
C25_RecoveryOrder ==
  Returned("Open")
     => /\ \A i \in 1..(Len(segments) - 1) :
              heap[segments[i]].filePath < heap[segments[i + 1]].filePath
        /\ activeSegment = segments[Len(segments)]
        /\ \A n \in DOMAIN dir : n <= heap[activeSegment].filePath
        /\ hist.prev.op = "none"
              => Len(segments) = 1 /\ heap[activeSegment].filePath = 0

\* C26. Get during merge: a Get of a key that held a value when it was
\* called, with no Put at work between its call and its return, returns
\* that value and no error, also when a MergeSegments runs meanwhile.
C26_GetDuringMerge ==
  \A t \in Threads :
     (ret[t].op = "Get" /\ ret[t].before.st = "ok" /\ ret[t].during = {})
        => /\ ~ret[t].err
           /\ ret[t].value = ret[t].before.value

====
